---- MODULE Spec2Model ----
(***************************************************************************)
(* Pod management system: the flat Item Store (podItems collection), the   *)
(* hierarchical Pod Structure Store (pods collection), the CSV reconciler, *)
(* the synchronization engine and the two location resolvers.              *)
(*                                                                         *)
(* String values that the code trims, lower-cases or measures (stock codes *)
(* and location keys) are sequences of one-character strings, so that the  *)
(* normalisation functions are computed and not assumed.                   *)
(***************************************************************************)
EXTENDS Integers, Sequences, FiniteSets, TLC

\* ------------------------------------------------------------------ bounds
MaxClock == 1
MaxRows == 2

\* --------------------------------------------------------------- constants
\* JavaScript null / undefined of a string-valued CSV field
NULL == <<"<null>">>
\* undefined of an optional string field of a document or request body
UNDEF == "undefined"
\* a date field that a document does not carry
NoTime == 0 - 1

S1 == <<"S", "1">>
S2 == <<"S", "2">>
U1 == <<"P", "-", "6", "1">>
U2 == <<"P", "-", "6", "2">>

validStatuses == {"missing", "available", "hunting"}

\* ------------------------------------------------------- string functions
UPPER == <<"A","B","C","D","E","F","G","H","I","J","K","L","M",
           "N","O","P","Q","R","S","T","U","V","W","X","Y","Z">>
LOWER == <<"a","b","c","d","e","f","g","h","i","j","k","l","m",
           "n","o","p","q","r","s","t","u","v","w","x","y","z">>

IsSpace(c) == c \in {" ", "\t"}

LowerChar(c) ==
  IF \E i \in 1..Len(UPPER) : UPPER[i] = c
    THEN LOWER[CHOOSE i \in 1..Len(UPPER) : UPPER[i] = c]
    ELSE c

toLowerCase(s) == [i \in 1..Len(s) |-> LowerChar(s[i])]

RECURSIVE TrimStart(_)
TrimStart(s) ==
  IF s # <<>> /\ IsSpace(Head(s)) THEN TrimStart(Tail(s)) ELSE s

RECURSIVE TrimEnd(_)
TrimEnd(s) ==
  IF s # <<>> /\ IsSpace(s[Len(s)]) THEN TrimEnd(SubSeq(s, 1, Len(s) - 1)) ELSE s

trim(s) == TrimEnd(TrimStart(s))

\* ------------------------------------------------ CSV row normalisation
cleanValue(value) ==
  IF \/ value = NULL
     \/ value = <<>>
     \/ trim(value) = <<>>
     \/ trim(value) = <<"N", "/", "A">>
     \/ toLowerCase(trim(value)) = <<"n", "o", "n", "e">>
    THEN NULL
    ELSE trim(value)

\* mutant: three characters are enough for a location key
isValidUBinIdShort(uBinId) ==
  IF uBinId = NULL \/ uBinId = <<>> \/ trim(uBinId) = <<>>
    THEN FALSE
    ELSE LET cleaned == trim(uBinId) IN
         IF \/ cleaned = <<"N", "/", "A">>
            \/ toLowerCase(cleaned) = <<"n", "o", "n", "e">>
            \/ toLowerCase(cleaned) = <<"n", "u", "l", "l">>
            \/ cleaned = <<"0">>
           THEN FALSE
           ELSE Len(cleaned) > 2

\* mutant: any non-blank value is taken for a location key
isValidUBinIdLax(uBinId) ==
  ~(uBinId = NULL \/ uBinId = <<>> \/ trim(uBinId) = <<>>)

isValidUBinId(uBinId) ==
  IF uBinId = NULL \/ uBinId = <<>> \/ trim(uBinId) = <<>>
    THEN FALSE
    ELSE LET cleaned == trim(uBinId) IN
         IF \/ cleaned = <<"N", "/", "A">>
            \/ toLowerCase(cleaned) = <<"n", "o", "n", "e">>
            \/ toLowerCase(cleaned) = <<"n", "u", "l", "l">>
            \/ cleaned = <<"0">>
           THEN FALSE
           ELSE Len(cleaned) > 3

cleanRow(row) ==
  [sku |-> cleanValue(row.sku),
   uBinId |-> cleanValue(row.uBinId),
   hasValidUBinId |-> isValidUBinId(cleanValue(row.uBinId))]

\* the raw field values a CSV file of the model may carry
RawSkus == {<<>>, S1, <<" ">> \o S2}
RawUBinIds == {U1, <<" ">> \o U2 \o <<" ">>, <<"0">>, <<>>}
RawRows == [sku : RawSkus, uBinId : RawUBinIds]

\* ---------------------------------------------------------------- state
VARIABLES
  items,      \* Item Store: the set of podItems documents
  now,        \* the wall clock read by new Date()
  recon,      \* reconciler: csvData.length, its four counters, whether it runs
  lastOp,     \* the last operation: the branch it took (op) and what it returned
  pods,       \* Pod Structure Store: the pods documents in natural order
  cache,      \* the server's in-memory cache: entries {key, data, timestamp}
  tasks       \* the requests in flight: each one's position and locals

vars == <<items, now, recon, lastOp, pods, cache, tasks>>

\* the two request slots, with no request in flight
TaskIds == {1, 2}
NoTasks == [t \in TaskIds |-> [pc |-> "idle"]]

\* ------------------------------------------------------- response cache
\* getCache(key): the entry's data, unless it is absent or older than
\* CACHE_TTL; a tick of the clock is longer than CACHE_TTL
CacheHit(entries, key) ==
  {e \in entries : e.key = key /\ ~(now > e.timestamp)}

\* the cache after getCache(key): an entry found too old is deleted
getCacheEvict(entries, key) ==
  {e \in entries : ~(e.key = key /\ now > e.timestamp)}

\* setCache(key, data): cache.set replaces the entry of the key
setCache(entries, key, data) ==
  {e \in entries : e.key # key}
    \cup {[key |-> key, data |-> data, timestamp |-> now]}

\* clearItemCache(): every key starts with "pod-items:" and is deleted
clearItemCache(entries) == {}

\* ------------------------------------------------------ Item Store (DB)
\* mutant: only the sku index is unique
DuplicateKeySkuOnly(store, doc) ==
  \E r \in store : r.sku = doc.sku

\* mutant: only the uBinId index is unique
DuplicateKeyUBinIdOnly(store, doc) ==
  \E r \in store : r.uBinId = doc.uBinId

\* unique indexes on sku and on uBinId
DuplicateKey(store, doc) ==
  \E r \in store : r.sku = doc.sku \/ r.uBinId = doc.uBinId

\* mutant: the document is stored whatever the indexes hold
insertOneUnchecked(store, doc) ==
  [ok |-> TRUE, store |-> store \cup {doc}]

\* collection.insertOne / model save of a new document
insertOne(store, doc) ==
  IF DuplicateKey(store, doc)
    THEN [ok |-> FALSE, store |-> store]
    ELSE [ok |-> TRUE, store |-> store \cup {doc}]

findOne(store, sku) ==
  IF \E r \in store : r.sku = sku
    THEN CHOOSE r \in store : r.sku = sku
    ELSE [sku |-> NULL]

\* mutant: the update also counts the relocated unit once more
updateOneBumpQuantity(store, sku, uBinId, t) ==
  LET old == findOne(store, sku) IN
  IF old.sku = NULL THEN [ok |-> TRUE, store |-> store]
  ELSE IF \E r \in store \ {old} : r.uBinId = uBinId
    THEN [ok |-> FALSE, store |-> store]
    ELSE [ok |-> TRUE,
          store |-> (store \ {old}) \cup
                    {[old EXCEPT !.uBinId = uBinId, !.updatedAt = t,
                                 !.quantity = @ + 1]}]

\* mutant: the update replaces the whole document by a fresh one
updateOneReplace(store, sku, uBinId, t) ==
  LET old == findOne(store, sku) IN
  IF old.sku = NULL THEN [ok |-> TRUE, store |-> store]
  ELSE IF \E r \in store \ {old} : r.uBinId = uBinId
    THEN [ok |-> FALSE, store |-> store]
    ELSE [ok |-> TRUE,
          store |-> (store \ {old}) \cup
                    {[sku |-> sku, uBinId |-> uBinId, quantity |-> 1,
                      status |-> "available", updatedAt |-> t, user |-> UNDEF,
                      asin |-> UNDEF, lastUpdated |-> NoTime]}]

\* collection.updateOne({sku}, {$set: {uBinId, updatedAt}})
updateOneUBinId(store, sku, uBinId, t) ==
  LET old == findOne(store, sku) IN
  IF old.sku = NULL THEN [ok |-> TRUE, store |-> store]
  ELSE IF \E r \in store \ {old} : r.uBinId = uBinId
    THEN [ok |-> FALSE, store |-> store]
    ELSE [ok |-> TRUE,
          store |-> (store \ {old}) \cup
                    {[old EXCEPT !.uBinId = uBinId, !.updatedAt = t]}]

\* ------------------------------------------------------------ reconciler
reconIdle ==
  [running |-> FALSE, length |-> 0, totalProcessed |-> 0, totalSkipped |-> 0,
   totalPodItemsInserted |-> 0, totalPodItemsUpdated |-> 0]

\* mutant: the inserted document takes the schema-less quantity 0
newPodItemZero(csvRow, t) ==
  [sku |-> csvRow.sku, uBinId |-> csvRow.uBinId, quantity |-> 0,
   status |-> "available", updatedAt |-> t, user |-> UNDEF,
   asin |-> UNDEF, lastUpdated |-> NoTime]

\* the document the reconciler inserts for a new stock code
newPodItem(csvRow, t) ==
  [sku |-> csvRow.sku, uBinId |-> csvRow.uBinId, quantity |-> 1,
   status |-> "available", updatedAt |-> t, user |-> UNDEF,
   asin |-> UNDEF, lastUpdated |-> NoTime]

\* the script loads the file (length rows) into csvData and zeroes its counters
StartReconcile(length) ==
  /\ ~recon.running
  /\ recon' = [reconIdle EXCEPT !.running = TRUE, !.length = length]
  /\ lastOp' = [op |-> "reconcile:start"]
  /\ UNCHANGED <<items, now, pods, cache, tasks>>

\* mutant: the location key is rewritten even when it has not changed
RelocateAlways(csvRow, existingPodItem) == TRUE

\* csvRow.uBinId !== existingPodItem.uBinId
RelocateNeeded(csvRow, existingPodItem) ==
  csvRow.uBinId # existingPodItem.uBinId

\* if (csvRow.hasValidUBinId && csvRow.uBinId)
LocationBearing(csvRow) == csvRow.hasValidUBinId /\ csvRow.uBinId # NULL

\* the effect of one loop iteration on the store and the counters;
\* counted is the counter record after totalProcessed++
ProcessCsvRow(store, counted, csvRow, t) ==
  IF csvRow.sku = NULL
    THEN [store |-> store, branch |-> "row:noSku",
          recon |-> [counted EXCEPT !.totalSkipped = @ + 1]]
  ELSE IF ~LocationBearing(csvRow)
    THEN [store |-> store, branch |-> "row:noLocation", recon |-> counted]
  ELSE LET existingPodItem == findOne(store, csvRow.sku) IN
    IF existingPodItem.sku # NULL
      THEN IF RelocateNeeded(csvRow, existingPodItem)
             THEN LET res == updateOneUBinId(store, csvRow.sku, csvRow.uBinId, t) IN
                  IF res.ok
                    THEN [store |-> res.store, branch |-> "row:updated",
                          recon |-> [counted EXCEPT !.totalPodItemsUpdated = @ + 1]]
                    \* podItemError: caught by the inner catch and logged
                    ELSE [store |-> store, branch |-> "row:error", recon |-> counted]
             ELSE [store |-> store, branch |-> "row:same", recon |-> counted]
      ELSE LET res == insertOne(store, newPodItem(csvRow, t)) IN
           IF res.ok
             THEN [store |-> res.store, branch |-> "row:inserted",
                   recon |-> [counted EXCEPT !.totalPodItemsInserted = @ + 1]]
             ELSE [store |-> store, branch |-> "row:error", recon |-> counted]

\* one iteration of the for loop: row is the next raw row of the file
ProcessRow(row) ==
  /\ recon.running
  /\ recon.totalProcessed < recon.length
  /\ LET out == ProcessCsvRow(items, [recon EXCEPT !.totalProcessed = @ + 1],
                              cleanRow(row), now)
     IN /\ items' = out.store
        /\ recon' = out.recon
        /\ lastOp' = [op |-> out.branch]
  /\ UNCHANGED <<now, pods, cache, tasks>>

\* the loop is over: the summary is printed and the process exits, its
\* counters with it
FinishReconcile ==
  /\ recon.running
  /\ recon.totalProcessed = recon.length
  /\ recon' = reconIdle
  /\ lastOp' = [op |-> "reconcile:done"]
  /\ UNCHANGED <<items, now, pods, cache, tasks>>

\* ------------------------------------------------------- item routes (API)
ApiSkus == {S1, S2}
ApiUBinIds == {U1, U2, NULL}
\* quantity left out of a request body
NoQty == 0 - 1
PostBodies ==
  {[status |-> UNDEF, quantity |-> 0, asin |-> UNDEF, user |-> UNDEF],
   [status |-> "broken", quantity |-> NoQty, asin |-> UNDEF, user |-> UNDEF]}
PatchStatuses == {"missing"}
PatchBodies ==
  {[status |-> UNDEF, quantity |-> 2, asin |-> "B0", user |-> "op"]}

\* schema validation run by save() on a PodItem document
PodItemValid(doc) ==
  /\ doc.sku # NULL
  /\ doc.uBinId # NULL
  /\ doc.status \in {"available", "missing", "hunting"}
  /\ doc.quantity >= 0

\* app.post("/items")
PostItem(sku, uBinId, body) ==
  /\ LET existingItem == findOne(items, sku)
         newItem == [sku |-> sku, uBinId |-> uBinId,
                     status |-> IF body.status = UNDEF THEN "available" ELSE body.status,
                     quantity |-> IF body.quantity = NoQty \/ body.quantity = 0
                                    THEN 1 ELSE body.quantity,
                     asin |-> body.asin, user |-> body.user,
                     lastUpdated |-> now, updatedAt |-> now]
     IN
     IF existingItem.sku # NULL
       THEN /\ lastOp' = [op |-> "post:exists"]
            /\ UNCHANGED items
     ELSE IF ~PodItemValid(newItem)
       THEN /\ lastOp' = [op |-> "post:invalid"]
            /\ UNCHANGED items
     ELSE LET res == insertOne(items, newItem) IN
          /\ items' = res.store
          /\ lastOp' = [op |-> IF res.ok THEN "post:created" ELSE "post:duplicate"]
  /\ UNCHANGED <<now, recon, pods, cache, tasks>>

\* app.patch("/items/:sku/status"): findOneAndUpdate without validators
PatchItemStatus(sku, status) ==
  /\ LET old == findOne(items, sku) IN
     IF old.sku = NULL
       THEN /\ lastOp' = [op |-> "status:notFound"]
            /\ UNCHANGED <<items, cache>>
       ELSE /\ items' = (items \ {old}) \cup
                        {[old EXCEPT !.status = status, !.lastUpdated = now,
                                     !.updatedAt = now]}
            /\ cache' = clearItemCache(cache)
            /\ lastOp' = [op |-> "status:updated"]
  /\ UNCHANGED <<now, recon, pods, tasks>>

\* app.patch("/items/:sku"): only the fields present in the body are set
PatchItem(sku, body) ==
  /\ LET old == findOne(items, sku) IN
     IF old.sku = NULL
       THEN /\ lastOp' = [op |-> "patch:notFound"]
            /\ UNCHANGED items
       ELSE /\ items' = (items \ {old}) \cup
              {[old EXCEPT
                 !.status = IF body.status # UNDEF THEN body.status ELSE @,
                 !.quantity = IF body.quantity # NoQty THEN body.quantity ELSE @,
                 !.asin = IF body.asin # UNDEF THEN body.asin ELSE @,
                 !.user = IF body.user # UNDEF THEN body.user ELSE @,
                 !.lastUpdated = now,
                 !.updatedAt = now]}
            /\ lastOp' = [op |-> "patch:updated"]
  /\ UNCHANGED <<now, recon, pods, cache, tasks>>

\* app.patch("/items/bulk-status"): updateMany({sku: {$in: skus}}, ...)
BulkStatus(skus, status) ==
  /\ items' = {IF r.sku \in skus
                 THEN [r EXCEPT !.status = status, !.lastUpdated = now,
                                !.updatedAt = now]
                 ELSE r : r \in items}
  /\ lastOp' = [op |-> "bulk"]
  /\ UNCHANGED <<now, recon, pods, cache, tasks>>

\* app.delete("/items/:sku")
DeleteItem(sku) ==
  /\ LET item == findOne(items, sku) IN
     IF item.sku = NULL
       THEN /\ lastOp' = [op |-> "delete:notFound"]
            /\ UNCHANGED items
       ELSE /\ items' = items \ {item}
            /\ lastOp' = [op |-> "delete:done"]
  /\ UNCHANGED <<now, recon, pods, cache, tasks>>

ItemRoutes ==
  \/ \E sku \in ApiSkus, uBinId \in ApiUBinIds, body \in PostBodies :
       PostItem(sku, uBinId, body)
  \/ \E sku \in ApiSkus, status \in PatchStatuses : PatchItemStatus(sku, status)
  \/ \E sku \in ApiSkus, body \in PatchBodies : PatchItem(sku, body)
  \/ \E skus \in (SUBSET ApiSkus) \ {{}} : BulkStatus(skus, "missing")
  \/ \E sku \in ApiSkus : DeleteItem(sku)

\* ------------------------------------------------- Pod Structure Store
MaxCount == 1

Barcodes == {"HB1", "HB2"}

RECURSIVE SumSeq(_)
SumSeq(q) == IF q = <<>> THEN 0 ELSE Head(q) + SumSeq(Tail(q))

\* a bin as a caller writes it into a request body
Bin(binId, uBinId, count) ==
  [binId |-> binId, uBinId |-> uBinId, binItemCount |-> count, items |-> <<>>]

Face(letter, bins) ==
  [podFace |-> letter, faceId |-> NULL, faceItemTotal |-> 0, bins |-> bins]

\* Pod.findOne({podBarcode}): the position of the document, 0 when absent
PodIndex(store, podBarcode) ==
  IF \E i \in 1..Len(store) : store[i].podBarcode = podBarcode
    THEN CHOOSE i \in 1..Len(store) : store[i].podBarcode = podBarcode
    ELSE 0

\* bins.reduce((total, bin) => total + (bin.binItemCount || 0), 0)
FaceSum(face) ==
  SumSeq([k \in 1..Len(face.bins) |-> face.bins[k].binItemCount])

\* mutant: the hook leaves faceItemTotal as the document carries it
preSaveKeep(pod) == pod

\* podSchema.pre("save"): faceItemTotal is the sum of the bins' binItemCount
preSave(pod) ==
  [pod EXCEPT !.podFace =
     [f \in 1..Len(pod.podFace) |->
        [pod.podFace[f] EXCEPT !.faceItemTotal = FaceSum(pod.podFace[f])]]]

\* the validators of itemSchema, binSchema, podFaceSchema and podSchema
PodValid(pod) ==
  /\ Len(pod.podFace) <= 4
  /\ \A f, g \in 1..Len(pod.podFace) :
       f # g => pod.podFace[f].podFace # pod.podFace[g].podFace
  /\ \A f \in 1..Len(pod.podFace) :
       /\ pod.podFace[f].podFace \in {"A", "B", "C", "D"}
       /\ Len(pod.podFace[f].bins) <= 52
       /\ \A k \in 1..Len(pod.podFace[f].bins) :
            LET bin == pod.podFace[f].bins[k] IN
            /\ bin.binItemCount >= 0
            /\ \A i \in 1..Len(bin.items) : bin.items[i].itemStatus \in validStatuses

\* app.post("/pods")
CreatePod(podBarcode, podFace) ==
  /\ LET pod == preSave([podBarcode |-> podBarcode, podFace |-> podFace]) IN
     IF PodIndex(pods, podBarcode) # 0
       THEN /\ lastOp' = [op |-> "pod:exists"]
            /\ UNCHANGED pods
     ELSE IF ~PodValid(pod)
       THEN /\ lastOp' = [op |-> "pod:invalid"]
            /\ UNCHANGED pods
     ELSE /\ pods' = Append(pods, pod)
          /\ lastOp' = [op |-> "pod:created"]
  /\ UNCHANGED <<items, now, recon, cache, tasks>>

\* ------------------------------------------------ synchronization engine
\* a set as a sequence, in some fixed order (a find() without a sort)
RECURSIVE SetToSeq(_)
SetToSeq(S) ==
  IF S = {} THEN <<>>
  ELSE LET x == CHOOSE x \in S : TRUE IN <<x>> \o SetToSeq(S \ {x})

\* PodItem.find({uBinId}).select("sku status").lean()
findByUBinId(store, uBinId) == SetToSeq({r \in store : r.uBinId = uBinId})

\* the embedded tuples of the items found: podItem.status || "available"
EmbeddedItems(podItems) ==
  [i \in 1..Len(podItems) |->
     [itemSku |-> podItems[i].sku,
      itemStatus |-> IF podItems[i].status \in {"", UNDEF}
                       THEN "available" ELSE podItems[i].status]]

\* mutant: a bin without a uBinId is emptied
SyncBinClearUnmapped(bin, store) ==
  IF bin.uBinId # NULL
    THEN LET found == EmbeddedItems(findByUBinId(store, bin.uBinId)) IN
         [bin EXCEPT !.items = found, !.binItemCount = Len(found)]
    ELSE [bin EXCEPT !.items = <<>>, !.binItemCount = 0]

\* mutant: the items found are added to the embedded list, not put in its place
SyncBinMerge(bin, store) ==
  IF bin.uBinId # NULL
    THEN LET found == EmbeddedItems(findByUBinId(store, bin.uBinId)) IN
         [bin EXCEPT !.items = @ \o found,
                     !.binItemCount = Len(bin.items \o found)]
    ELSE bin

\* the loop body over one bin
SyncBin(bin, store) ==
  IF bin.uBinId # NULL
    THEN LET found == EmbeddedItems(findByUBinId(store, bin.uBinId)) IN
         [bin EXCEPT !.items = found, !.binItemCount = Len(found)]
    ELSE bin

SyncedFaces(podFace, store) ==
  [f \in 1..Len(podFace) |->
     [podFace[f] EXCEPT !.bins = [k \in 1..Len(@) |-> SyncBin(@[k], store)]]]

\* totalItemsSynced += bin.items.length, over the bins that carry a uBinId
ItemsSynced(podFace) ==
  SumSeq([f \in 1..Len(podFace) |->
            SumSeq([k \in 1..Len(podFace[f].bins) |->
                      IF podFace[f].bins[k].uBinId # NULL
                        THEN Len(podFace[f].bins[k].items) ELSE 0])])

\* binsProcessed++, over the bins that carry a uBinId
BinsProcessed(podFace) ==
  SumSeq([f \in 1..Len(podFace) |->
            SumSeq([k \in 1..Len(podFace[f].bins) |->
                      IF podFace[f].bins[k].uBinId # NULL THEN 1 ELSE 0])])

\* mutant: the document is saved whatever the number of items found
syncItemsAlwaysSave(pod, store) ==
  LET synced == [pod EXCEPT !.podFace = SyncedFaces(@, store)]
      totalItemsSynced == ItemsSynced(synced.podFace)
      result == [success |-> TRUE, podBarcode |-> pod.podBarcode,
                 itemsSynced |-> totalItemsSynced,
                 binsProcessed |-> BinsProcessed(synced.podFace),
                 facesProcessed |-> Len(pod.podFace)]
  IN
  IF PodValid(preSave(synced))
    THEN [doc |-> preSave(synced), saved |-> TRUE, result |-> result,
          found |-> totalItemsSynced, saveCalls |-> 1]
    ELSE [doc |-> pod, saved |-> FALSE,
          result |-> [success |-> FALSE, podBarcode |-> pod.podBarcode],
          found |-> totalItemsSynced, saveCalls |-> 1]

\* podSchema.methods.syncItemsFromPodItemCollection on a loaded document:
\* doc is what the store holds afterwards, result what the call returns,
\* found the items counted over the bins, saveCalls the calls of save() and
\* saved whether one of them wrote the document
syncItemsFromPodItemCollection(pod, store) ==
  LET synced == [pod EXCEPT !.podFace = SyncedFaces(@, store)]
      totalItemsSynced == ItemsSynced(synced.podFace)
      result == [success |-> TRUE, podBarcode |-> pod.podBarcode,
                 itemsSynced |-> totalItemsSynced,
                 binsProcessed |-> BinsProcessed(synced.podFace),
                 facesProcessed |-> Len(pod.podFace)]
  IN
  IF totalItemsSynced > 0
    THEN IF PodValid(preSave(synced))
           THEN [doc |-> preSave(synced), saved |-> TRUE, result |-> result,
                 found |-> totalItemsSynced, saveCalls |-> 1]
           \* save() rejects the document: "Failed to sync items for pod ..."
           ELSE [doc |-> pod, saved |-> FALSE,
                 result |-> [success |-> FALSE, podBarcode |-> pod.podBarcode],
                 found |-> totalItemsSynced, saveCalls |-> 1]
    ELSE [doc |-> pod, saved |-> FALSE, result |-> result,
          found |-> 0, saveCalls |-> 0]

\* Pod.syncPodWithItems(podBarcode)
SyncPod(podBarcode) ==
  /\ LET i == PodIndex(pods, podBarcode) IN
     IF i = 0
       THEN /\ lastOp' = [op |-> "syncPod:notFound", podBarcode |-> podBarcode]
            /\ UNCHANGED pods
       ELSE LET out == syncItemsFromPodItemCollection(pods[i], items) IN
            /\ pods' = [pods EXCEPT ![i] = out.doc]
            /\ lastOp' = [op |-> IF out.result.success
                                   THEN "syncPod:ok" ELSE "syncPod:error",
                          saved |-> out.saved,
                          found |-> out.found,
                          saveCalls |-> out.saveCalls,
                          \* this call directly follows a successful one on
                          \* the same pod
                          inARow |-> (lastOp.op = "syncPod:ok"
                                      /\ lastOp.podBarcode = podBarcode)]
                         @@ out.result
  /\ UNCHANGED <<items, now, recon, cache, tasks>>

\* mutant: the loop stops at the first pod whose synchronization raises
RECURSIVE SyncAllLoopFailFast(_, _, _, _)
SyncAllLoopFailFast(loaded, store, i, acc) ==
  IF i > Len(loaded) THEN acc
  ELSE LET out == syncItemsFromPodItemCollection(loaded[i], store) IN
       IF out.result.success
         THEN SyncAllLoopFailFast(loaded, store, i + 1,
                [acc EXCEPT !.pods[i] = out.doc,
                            !.totalSynced = @ + out.result.itemsSynced])
         ELSE [acc EXCEPT !.totalErrors = @ + 1,
                          !.errorDetails = Append(@, loaded[i].podBarcode)]

\* for (const pod of pods) { try { ... } catch { ... } } from the i-th pod on;
\* acc carries the store and totalSynced, totalErrors, errorDetails
RECURSIVE SyncAllLoop(_, _, _, _)
SyncAllLoop(loaded, store, i, acc) ==
  IF i > Len(loaded) THEN acc
  ELSE LET out == syncItemsFromPodItemCollection(loaded[i], store) IN
       IF out.result.success
         THEN SyncAllLoop(loaded, store, i + 1,
                [acc EXCEPT !.pods[i] = out.doc,
                            !.totalSynced = @ + out.result.itemsSynced])
         ELSE SyncAllLoop(loaded, store, i + 1,
                [acc EXCEPT !.totalErrors = @ + 1,
                            !.errorDetails = Append(@, loaded[i].podBarcode)])

\* Pod.syncAllPodsWithItems()
SyncAll ==
  /\ LET acc == SyncAllLoop(pods, items, 1,
                  [pods |-> pods, totalSynced |-> 0, totalErrors |-> 0,
                   errorDetails |-> <<>>])
     IN /\ pods' = acc.pods
        /\ lastOp' = [op |-> "syncAll", success |-> TRUE,
                      totalPods |-> Len(pods),
                      totalItemsSynced |-> acc.totalSynced,
                      totalErrors |-> acc.totalErrors,
                      errorDetails |-> acc.errorDetails]
  /\ UNCHANGED <<items, now, recon, cache, tasks>>

\* the pod structures that callers of POST /pods supply
\* ------------------------------------------------------ location resolver
\* item.binInfo when no bin was attached: the fields read through ?. are
\* undefined
NoBinInfo ==
  [podBarcode |-> UNDEF, faceId |-> UNDEF, binId |-> UNDEF, uBinId |-> NULL,
   binItemCount |-> NoQty]

\* the bins of a pod in traversal order, faces first and bins within a face,
\* each with the descriptor both strategies project
RECURSIVE Unwind(_, _)
Unwind(pod, f) ==
  IF f > Len(pod.podFace) THEN <<>>
  ELSE [k \in 1..Len(pod.podFace[f].bins) |->
          [podBarcode |-> pod.podBarcode,
           faceId |-> pod.podFace[f].podFace,
           binId |-> pod.podFace[f].bins[k].binId,
           uBinId |-> pod.podFace[f].bins[k].uBinId,
           binItemCount |-> pod.podFace[f].bins[k].binItemCount]]
       \o Unwind(pod, f + 1)

First(S) == CHOOSE k \in S : \A j \in S : k <= j
Last(S) == CHOOSE k \in S : \A j \in S : j <= k

\* the uBinIds collected from the bins that carry one
PodUBinIds(pod) ==
  {Unwind(pod, 1)[k].uBinId : k \in 1..Len(Unwind(pod, 1))} \ {NULL}

\* PodItem.getItemsByPodBarcodeFast(podBarcode, filters), no store error
getItemsByPodBarcodeFast(podStore, store, podBarcode, filters) ==
  LET i == PodIndex(podStore, podBarcode) IN
  IF i = 0 THEN {}
  ELSE
    LET rows == Unwind(podStore[i], 1)
        mapped == {k \in 1..Len(rows) : rows[k].uBinId # NULL}
        uBinIds == {rows[k].uBinId : k \in mapped}
        \* binMapping.set(bin.uBinId, ...): a later bin replaces an earlier
        binMapping(u) == rows[Last({k \in mapped : rows[k].uBinId = u})]
        faceUBinIds == {u \in uBinIds : binMapping(u).faceId = filters.faceId}
        binUBinIds == {u \in uBinIds : binMapping(u).binId = filters.binId}
        \* itemQuery.uBinId is assigned for faceId and then for binId
        queried == IF filters.binId # UNDEF THEN binUBinIds
                   ELSE IF filters.faceId # UNDEF THEN faceUBinIds
                   ELSE uBinIds
        found == {r \in store :
                    /\ r.uBinId \in queried
                    /\ filters.status # UNDEF => r.status = filters.status}
    IN {[item |-> r, binInfo |-> binMapping(r.uBinId)] : r \in found}

\* $match {"podFace.bins.uBinId": {$exists: true, $ne: null}} over the bins
\* of all faces: some bin has the field, and none has it null or missing
LookupCandidate(pod) ==
  LET rows == Unwind(pod, 1) IN
  /\ \E k \in 1..Len(rows) : rows[k].uBinId # NULL
  /\ \A k \in 1..Len(rows) : rows[k].uBinId # NULL

\* the unwound bins of the candidate pods, pod after pod
RECURSIVE LookupRows(_, _)
LookupRows(podStore, i) ==
  IF i > Len(podStore) THEN <<>>
  ELSE (IF LookupCandidate(podStore[i]) THEN Unwind(podStore[i], 1) ELSE <<>>)
       \o LookupRows(podStore, i + 1)

\* the $lookup of one item: the first bin with the item's uBinId ($limit: 1),
\* nothing attached when there is none (preserveNullAndEmptyArrays)
binInfo(podStore, uBinId) ==
  LET rows == LookupRows(podStore, 1)
      hits == {k \in 1..Len(rows) : rows[k].uBinId = uBinId}
  IN IF hits = {} THEN NoBinInfo ELSE rows[First(hits)]

\* PodItem.getItemsWithBinMapping(query); query holds an optional status and
\* the set uBinId is matched $in
getItemsWithBinMapping(podStore, store, query) ==
  {[item |-> r, binInfo |-> binInfo(podStore, r.uBinId)] :
     r \in {x \in store :
              /\ x.uBinId \in query.uBinId
              /\ query.status # UNDEF => x.status = query.status}}

\* the join strategy restricted to a pod's uBinIds, the face and bin filters
\* applied to the attached binInfo as app.get("/bin-items") applies them
binItemsOfPod(podStore, store, podBarcode, filters) ==
  LET i == PodIndex(podStore, podBarcode) IN
  IF i = 0 THEN {}
  ELSE
    LET joined == getItemsWithBinMapping(podStore, store,
                    [status |-> filters.status,
                     uBinId |-> PodUBinIds(podStore[i])])
    IN {x \in joined :
          /\ filters.binId # UNDEF => x.binInfo.binId = filters.binId
          /\ filters.faceId # UNDEF => x.binInfo.faceId = filters.faceId}

\* a binId as the string of characters the stores compare
BinIdChars == [A1 |-> <<"A", "1">>, A2 |-> <<"A", "2">>]

\* the pods a $match {podBarcode} lets through, unwound
RECURSIVE PodRows(_, _, _)
PodRows(podStore, podBarcode, i) ==
  IF i > Len(podStore) THEN <<>>
  ELSE (IF podStore[i].podBarcode = podBarcode
          THEN Unwind(podStore[i], 1) ELSE <<>>)
       \o PodRows(podStore, podBarcode, i + 1)

\* PodItem.getItemsByPodBarcode(podBarcode, filters): the lookup matches
\* podFace.bins.binId against the item's uBinId and projects podFace.faceId,
\* a field the faces do not have; the binId filter is put on uBinId
getItemsByPodBarcode(podStore, store, podBarcode, filters) ==
  LET rows == PodRows(podStore, podBarcode, 1)
      joined == {<<r, k>> \in store \X (1..Len(rows)) :
                   BinIdChars[rows[k].binId] = r.uBinId}
      kept == {p \in joined :
                 /\ filters.status # UNDEF => p[1].status = filters.status
                 /\ filters.binId # UNDEF =>
                      p[1].uBinId = BinIdChars[filters.binId]
                 /\ filters.faceId # UNDEF => UNDEF = filters.faceId}
  IN {[item |-> p[1],
       binInfo |-> [podBarcode |-> rows[p[2]].podBarcode, faceId |-> UNDEF,
                    binId |-> rows[p[2]].binId, uBinId |-> p[1].uBinId,
                    binItemCount |-> NoQty]] : p \in kept}

\* the store calls that may raise during a pod-scoped query
Faults == {"none", "Pod.findOne", "PodItem.find"}

\* mutant: a missing pod is handed to the fallback like an error
fastOrFallbackNoPodFallsBack(podStore, store, podBarcode, filters, fault) ==
  IF fault = "Pod.findOne" \/ PodIndex(podStore, podBarcode) = 0
    THEN [calls |-> <<"Pod.findOne", "PodItem.aggregate">>,
          result |-> getItemsByPodBarcode(podStore, store, podBarcode, filters)]
  ELSE IF fault = "PodItem.find"
    THEN [calls |-> <<"Pod.findOne", "PodItem.find", "PodItem.aggregate">>,
          result |-> getItemsByPodBarcode(podStore, store, podBarcode, filters)]
  ELSE [calls |-> <<"Pod.findOne", "PodItem.find">>,
        result |-> getItemsByPodBarcodeFast(podStore, store, podBarcode,
                                            filters)]

\* getItemsByPodBarcodeFast with its try/catch: the store calls issued and the
\* value returned when the call named by fault raises
fastOrFallback(podStore, store, podBarcode, filters, fault) ==
  IF fault = "Pod.findOne"
    THEN [calls |-> <<"Pod.findOne", "PodItem.aggregate">>,
          result |-> getItemsByPodBarcode(podStore, store, podBarcode, filters)]
  ELSE IF PodIndex(podStore, podBarcode) = 0
    THEN [calls |-> <<"Pod.findOne">>, result |-> {}]
  ELSE IF fault = "PodItem.find"
    THEN [calls |-> <<"Pod.findOne", "PodItem.find", "PodItem.aggregate">>,
          result |-> getItemsByPodBarcode(podStore, store, podBarcode, filters)]
  ELSE [calls |-> <<"Pod.findOne", "PodItem.find">>,
        result |-> getItemsByPodBarcodeFast(podStore, store, podBarcode,
                                            filters)]

\* PodItem.getItemsByPodBarcodeFast(podBarcode, filters) as a caller sees it
PodItems(podBarcode, filters, fault) ==
  /\ lastOp' = [op |-> "podItems", podBarcode |-> podBarcode,
                filters |-> filters, fault |-> fault]
               @@ fastOrFallback(pods, items, podBarcode, filters, fault)
  /\ UNCHANGED <<items, now, recon, pods, cache, tasks>>

\* one pod-scoped question put to both strategies over the same stores
Resolve(podBarcode, filters) ==
  /\ lastOp' = [op |-> "resolve", podBarcode |-> podBarcode,
                filters |-> filters,
                fast |-> getItemsByPodBarcodeFast(pods, items, podBarcode,
                                                  filters),
                join |-> binItemsOfPod(pods, items, podBarcode, filters)]
  /\ UNCHANGED <<items, now, recon, pods, cache, tasks>>

\* pods put to the resolver: one uBinId per bin; a bin without uBinId; one
\* uBinId on two faces
ResolveFaces ==
  {<<Face("A", <<Bin("A1", U1, 0)>>), Face("C", <<Bin("A1", U2, 0)>>)>>,
   <<Face("A", <<Bin("A1", U1, 0), Bin("A2", NULL, 0)>>)>>,
   <<Face("A", <<Bin("A1", U2, 0)>>), Face("C", <<Bin("A1", U2, 0)>>)>>}

ResolveFilters ==
  [status : {UNDEF, "available"}, faceId : {UNDEF, "A", "C"},
   binId : {UNDEF, "A1"}]

RichFaces ==
  {<<Face("A", <<Bin("A1", x, c), Bin("A2", NULL, c)>>),
     Face("C", <<Bin("A1", U2, c)>>)>> :
     x \in {U1, U2}, c \in 0..MaxCount}

SmallFaces == {<<Face("A", <<Bin("A1", U1, 0)>>)>>}

SyncPodInputs(podBarcode) ==
  IF podBarcode = "HB1" THEN RichFaces ELSE SmallFaces

\* status patches taken between synchronizations: a valid status and one the
\* embedded item schema rejects, both on the first stock code
SyncStatuses == {"missing", "broken"}

Tick ==
  /\ now < MaxClock
  /\ now' = now + 1
  /\ lastOp' = [op |-> "tick"]
  /\ UNCHANGED <<items, recon, pods, cache, tasks>>

Init ==
  /\ items = {}
  /\ now = 0
  /\ recon = reconIdle
  /\ lastOp = [op |-> "init"]
  /\ pods = <<>>
  /\ cache = {}
  /\ tasks = NoTasks

ReconcileNext ==
  \/ \E length \in 0..MaxRows : StartReconcile(length)
  \/ \E row \in RawRows : ProcessRow(row)
  \/ FinishReconcile

\* the reconciler at work on a store whose records the detail route edits
Next ==
  \/ ReconcileNext
  \/ \E sku \in ApiSkus, body \in PatchBodies : PatchItem(sku, body)
  \/ Tick

Spec == Init /\ [][Next]_vars

\* every writer of the Item Store, interleaved
NextItems ==
  \/ ReconcileNext
  \/ ItemRoutes

SpecItems == Init /\ [][NextItems]_vars
\* the synchronization engine over stores that the routes populate
NextSync ==
  \/ \E b \in Barcodes : \E podFace \in SyncPodInputs(b) : CreatePod(b, podFace)
  \/ \E sku \in ApiSkus, uBinId \in {U1, U2} :
       PostItem(sku, uBinId, [status |-> UNDEF, quantity |-> NoQty,
                              asin |-> UNDEF, user |-> UNDEF])
  \/ \E status \in SyncStatuses : PatchItemStatus(S1, status)
  \/ \E sku \in ApiSkus : DeleteItem(sku)
  \/ \E b \in Barcodes : SyncPod(b)
  \/ SyncAll

SpecSync == Init /\ [][NextSync]_vars

NextResolve ==
  \/ \E b \in Barcodes : \E podFace \in ResolveFaces : CreatePod(b, podFace)
  \/ \E sku \in ApiSkus, uBinId \in {U1, U2} :
       PostItem(sku, uBinId, [status |-> UNDEF, quantity |-> NoQty,
                              asin |-> UNDEF, user |-> UNDEF])
  \/ PatchItemStatus(S1, "missing")
  \/ \E b \in Barcodes : \E filters \in ResolveFilters : Resolve(b, filters)

SpecResolve == Init /\ [][NextResolve]_vars

\* the pods put to the fast strategy and its fallback: any of the resolver's
\* pods under the first barcode, the first of them under the second
FallbackFaces(podBarcode) ==
  IF podBarcode = "HB1" THEN ResolveFaces
  ELSE {<<Face("A", <<Bin("A1", U1, 0)>>), Face("C", <<Bin("A1", U2, 0)>>)>>}

NextFallback ==
  \/ \E b \in Barcodes : \E podFace \in FallbackFaces(b) : CreatePod(b, podFace)
  \/ \E sku \in ApiSkus, uBinId \in {U1, U2} :
       PostItem(sku, uBinId, [status |-> UNDEF, quantity |-> NoQty,
                              asin |-> UNDEF, user |-> UNDEF])
  \/ PatchItemStatus(S1, "missing")
  \/ \E b \in Barcodes : \E filters \in ResolveFilters : \E fault \in Faults :
       PodItems(b, filters, fault)

SpecFallback == Init /\ [][NextFallback]_vars

\* ================================================================ claims
\* the cases of a reconciler row, stated on the store before the row
\* the rows as cleanRow leaves them, tabulated once
CleanedRows == {<<row, cleanRow(row)>> : row \in RawRows}

Cleaned(row) == (CHOOSE p \in CleanedRows : p[1] = row)[2]

RowHasLocation(row) ==
  Cleaned(row).sku # NULL /\ Cleaned(row).hasValidUBinId

SkuKnown(row) == \E r \in items : r.sku = Cleaned(row).sku

KeyHeldByOther(row) ==
  \E r \in items : r.sku # Cleaned(row).sku /\ r.uBinId = Cleaned(row).uBinId

SkuAtOtherKey(row) ==
  \E r \in items : r.sku = Cleaned(row).sku /\ r.uBinId # Cleaned(row).uBinId

SkuAtSameKey(row) ==
  \E r \in items : r.sku = Cleaned(row).sku /\ r.uBinId = Cleaned(row).uBinId

\* the relocation of the record of the row's stock code, and nothing else
RelocatedOnly(row) ==
  \E old \in items, new \in items' :
    /\ old.sku = Cleaned(row).sku
    /\ new.sku = old.sku
    /\ new.uBinId = Cleaned(row).uBinId
    /\ new.updatedAt = now
    /\ new.status = old.status
    /\ new.quantity = old.quantity
    /\ new.asin = old.asin
    /\ new.user = old.user
    /\ items' \ {new} = items \ {old}

CountersKept ==
  /\ recon'.totalPodItemsInserted = recon.totalPodItemsInserted
  /\ recon'.totalPodItemsUpdated = recon.totalPodItemsUpdated

\* C6: in every reachable state of the Item Store no two records share a
\* stock code and no two records share a uBinId.
C6_UniqueKeys ==
  \A r1, r2 \in items :
    r1 # r2 => (r1.sku # r2.sku /\ r1.uBinId # r2.uBinId)

\* two records are stored and a write that would have duplicated a key was
\* just refused
C6_Witness ==
  /\ Cardinality(items) = 2
  /\ lastOp.op \in {"row:error", "post:duplicate"}

\* C7 as stated: a row whose stock code is stored at a different, valid
\* location key relocates that record only (status, quantity, asin and user
\* kept, no other record touched) and counts one update.
C7_Original ==
  [][\A row \in RawRows :
       (RowHasLocation(row) /\ SkuAtOtherKey(row) /\ ProcessRow(row))
         => (RelocatedOnly(row)
             /\ recon'.totalPodItemsUpdated = recon.totalPodItemsUpdated + 1)]_vars

\* C7 amended: the same, provided no record of another stock code holds the
\* row's location key.
C7_RelocateFrame ==
  [][\A row \in RawRows :
       (RowHasLocation(row) /\ SkuAtOtherKey(row) /\ ~KeyHeldByOther(row)
          /\ ProcessRow(row))
         => (RelocatedOnly(row)
             /\ recon'.totalPodItemsUpdated = recon.totalPodItemsUpdated + 1
             /\ recon'.totalPodItemsInserted = recon.totalPodItemsInserted)]_vars

\* a record edited through the detail route at an earlier time was relocated
C7_Witness ==
  /\ lastOp.op = "row:updated"
  /\ \E r \in items :
       /\ r.quantity = 2 /\ r.user = "op" /\ r.asin = "B0"
       /\ r.updatedAt = now /\ r.lastUpdated # NoTime /\ r.lastUpdated < now

\* C8 as stated: a row with a valid location key and an unknown stock code
\* adds exactly one record (that stock code and key, available, quantity 1)
\* and counts one insert.
InsertedOne(row) ==
  \E new \in items' :
    /\ new \notin items
    /\ items' = items \cup {new}
    /\ new.sku = Cleaned(row).sku
    /\ new.uBinId = Cleaned(row).uBinId
    /\ new.status = "available"
    /\ new.quantity = 1

C8_Original ==
  [][\A row \in RawRows :
       (RowHasLocation(row) /\ ~SkuKnown(row) /\ ProcessRow(row))
         => (InsertedOne(row)
             /\ recon'.totalPodItemsInserted = recon.totalPodItemsInserted + 1)]_vars

\* C8 amended: the same, provided no stored record holds the row's location
\* key.
C8_InsertNew ==
  [][\A row \in RawRows :
       (RowHasLocation(row) /\ ~SkuKnown(row) /\ ~KeyHeldByOther(row)
          /\ ProcessRow(row))
         => (InsertedOne(row)
             /\ recon'.totalPodItemsInserted = recon.totalPodItemsInserted + 1
             /\ recon'.totalPodItemsUpdated = recon.totalPodItemsUpdated)]_vars

\* a second record was inserted by a row
C8_Witness ==
  /\ lastOp.op = "row:inserted"
  /\ Cardinality(items) = 2
  /\ recon.totalPodItemsInserted >= 1

\* C9: a row whose stock code is stored with the row's own location key
\* writes nothing and counts neither an insert nor an update.
C9_SameKeyNoWrite ==
  [][\A row \in RawRows :
       (Cleaned(row).sku # NULL /\ SkuAtSameKey(row) /\ ProcessRow(row))
         => (items' = items /\ CountersKept)]_vars

\* such a row was processed at a later time than the record's last write
C9_Witness ==
  /\ lastOp.op = "row:same"
  /\ \E r \in items : r.updatedAt < now

\* C10 as stated: a row whose store operation fails (the key is held by a
\* record of another stock code) adds one to skipped and nothing to inserted
\* or updated, and the loop goes on.
RowFails(row) ==
  /\ RowHasLocation(row)
  /\ KeyHeldByOther(row)
  /\ ~SkuAtSameKey(row)

C10_Original ==
  [][\A row \in RawRows :
       (RowFails(row) /\ ProcessRow(row))
         => (/\ recon'.totalSkipped = recon.totalSkipped + 1
             /\ CountersKept
             /\ recon'.running)]_vars

\* ------------------------------------------------- synchronization claims
BinsOf(pod) ==
  UNION {{pod.podFace[f].bins[k] : k \in 1..Len(pod.podFace[f].bins)} :
           f \in 1..Len(pod.podFace)}

\* the pod that the last syncPod call worked on, as persisted
SyncedPod == pods[PodIndex(pods, lastOp.podBarcode)]

\* the (stock code, status) projection of the records stored at a uBinId
Projection(uBinId) ==
  {[itemSku |-> r.sku, itemStatus |-> r.status] :
     r \in {x \in items : x.uBinId = uBinId}}

\* C1 as stated: after a successful syncPod(b), every bin of the persisted
\* pod b that carries a uBinId embeds exactly the (stock code, status)
\* projection of the Item Store records at that uBinId: no entry is left for
\* an item that moved away or was deleted.
C1_Original ==
  lastOp.op = "syncPod:ok" =>
    \A bin \in BinsOf(SyncedPod) :
      bin.uBinId # NULL =>
        /\ {bin.items[i] : i \in 1..Len(bin.items)} = Projection(bin.uBinId)
        /\ Len(bin.items) = Cardinality(Projection(bin.uBinId))

\* C2 as stated: after a successful syncPod, every bin's binItemCount is the
\* length of its embedded list and every face's faceItemTotal is the sum of
\* its bins' binItemCount.
C2_Original ==
  lastOp.op = "syncPod:ok" =>
    /\ \A bin \in BinsOf(SyncedPod) : bin.binItemCount = Len(bin.items)
    /\ \A f \in 1..Len(SyncedPod.podFace) :
         SyncedPod.podFace[f].faceItemTotal =
           SumSeq([k \in 1..Len(SyncedPod.podFace[f].bins) |->
                     SyncedPod.podFace[f].bins[k].binItemCount])

\* C3 as stated: for any pod-scoped filter (barcode plus optional status,
\* face, bin) and any contents of the two stores, the fast strategy returns
\* the same set of (item, pod/face/bin annotation) pairs as the join strategy
\* restricted to that pod's uBinIds.
C3_Original ==
  lastOp.op = "resolve" => lastOp.fast = lastOp.join

\* C4: a syncPod that directly follows a syncPod of the same pod (no Item
\* Store change in between) ends as the first run ended and leaves the
\* persisted pod, its bin item lists, binItemCount and faceItemTotal values,
\* as the first run left it.
C4_Idempotent ==
  [][\A b \in Barcodes :
       (/\ lastOp.op \in {"syncPod:ok", "syncPod:error"}
        /\ lastOp.podBarcode = b
        /\ SyncPod(b))
         => (pods' = pods /\ lastOp'.op = lastOp.op)]_vars

\* a second run in a row that found items and wrote the pod again
C4_Witness ==
  /\ lastOp.op = "syncPod:ok"
  /\ lastOp.inARow
  /\ lastOp.saved
  /\ \E bin \in BinsOf(SyncedPod) : bin.items # <<>>

\* C5: syncAll goes over every pod: totalPods is the number of pods,
\* totalErrors the number of pods whose synchronization raises, errorDetails
\* names exactly those pods, and every other pod is persisted as syncPod
\* persists it, whether it comes before or after a failing one.
Raises(pod) == ~syncItemsFromPodItemCollection(pod, items).result.success

C5_PartialFailure ==
  [][(lastOp'.op = "syncAll" /\ SyncAll) =>
       /\ Len(pods') = Len(pods)
       /\ lastOp'.totalPods = Len(pods)
       /\ lastOp'.totalErrors = Cardinality({i \in 1..Len(pods) : Raises(pods[i])})
       /\ Len(lastOp'.errorDetails) = lastOp'.totalErrors
       /\ {lastOp'.errorDetails[j] : j \in 1..Len(lastOp'.errorDetails)}
            = {pods[i].podBarcode : i \in {j \in 1..Len(pods) : Raises(pods[j])}}
       /\ \A i \in 1..Len(pods) :
            pods'[i] = IF Raises(pods[i]) THEN pods[i]
                       ELSE syncItemsFromPodItemCollection(pods[i], items).doc]_vars

\* the first pod raised and the second was synchronized after it
C5_Witness ==
  /\ lastOp.op = "syncAll"
  /\ lastOp.totalPods = 2
  /\ lastOp.errorDetails = <<pods[1].podBarcode>>
  /\ \E bin \in BinsOf(pods[2]) : bin.items # <<>>
\* ------------------------------------------------- later reconciler claims
\* raw location fields that are absent or not a location key
NoLocationKeys == {<<>>, <<"0">>}

\* C11: a row whose location key is absent or invalid never changes the Item
\* Store: the record of its stock code keeps all its fields and no record is
\* inserted.
C11_NoLocationNoWrite ==
  [][\A row \in RawRows :
       (row.uBinId \in NoLocationKeys /\ ProcessRow(row))
         => items' = items]_vars

\* such a row was processed while both stock codes were stored
C11_Witness ==
  /\ lastOp.op = "row:noLocation"
  /\ Cardinality(items) = 2

\* --------------------------------------------- location key normalisation
MaxKeyLen == 4

KeyAlphabet == {"0", "A", "B"}

RECURSIVE SeqsOfLen(_, _)
SeqsOfLen(A, n) ==
  IF n = 0 THEN {<<>>}
  ELSE {Append(q, a) : q \in SeqsOfLen(A, n - 1), a \in A}

UpperChar(c) ==
  IF \E i \in 1..Len(LOWER) : LOWER[i] = c
    THEN UPPER[CHOOSE i \in 1..Len(LOWER) : LOWER[i] = c]
    ELSE c

\* a word in every mix of upper and lower case
CaseVariants(w) ==
  {[i \in 1..Len(w) |-> IF i \in up THEN UpperChar(w[i]) ELSE w[i]] :
     up \in SUBSET (1..Len(w))}

ExampleKey == <<"P", "-", "6", "-", "R", "3", "2", "6", "Q", "0", "5", "3">>

\* location fields of a CSV file without their surrounding blanks
KeyCores ==
  UNION {SeqsOfLen(KeyAlphabet, n) : n \in 0..MaxKeyLen}
    \cup CaseVariants(<<"n", "o", "n", "e">>)
    \cup CaseVariants(<<"n", "u", "l", "l">>)
    \cup CaseVariants(<<"n", "/", "a">>)
    \cup {ExampleKey}

KeyPads == {<<>>, <<" ">>, <<"\t", " ">>}

\* a file row is read: its location field is core between blanks
InitClean ==
  /\ items = {}
  /\ now = 0
  /\ recon = reconIdle
  /\ pods = <<>>
  /\ cache = {}
  /\ tasks = NoTasks
  /\ \E core \in KeyCores, left \in KeyPads, right \in KeyPads :
       lastOp = [op |-> "raw", core |-> core, value |-> left \o core \o right]

\* the "data" handler of the CSV stream: the row is cleaned and pushed
CleanData ==
  /\ lastOp.op = "raw"
  /\ lastOp' = [op |-> "cleaned", core |-> lastOp.core, value |-> lastOp.value,
                row |-> cleanRow([sku |-> S1, uBinId |-> lastOp.value])]
  /\ UNCHANGED <<items, now, recon, pods, cache, tasks>>

SpecClean == InitClean /\ [][CleanData]_vars

\* what the specification accepts as a location key, on the trimmed field
AcceptedKey(core) ==
  /\ core # <<>>
  /\ core # <<"N", "/", "A">>
  /\ core \notin CaseVariants(<<"n", "o", "n", "e">>)
  /\ core \notin CaseVariants(<<"n", "u", "l", "l">>)
  /\ core # <<"0">>
  /\ Len(core) > 3

\* C12: a row is location-bearing exactly when its raw location key, after
\* trimming, is non-empty, is not N/A, is not none or null in any letter
\* case, is not 0 and is longer than 3 characters; 0 and AB are rejected and
\* P-6-R326Q053 is accepted.
C12_LocationBearing ==
  lastOp.op = "cleaned" =>
    /\ LocationBearing(lastOp.row) <=> AcceptedKey(lastOp.core)
    /\ lastOp.core \in {<<"0">>, <<"A", "B">>} => ~LocationBearing(lastOp.row)
    /\ lastOp.core = ExampleKey => LocationBearing(lastOp.row)

\* the example key, read between blanks, was accepted and trimmed
C12_Witness ==
  /\ lastOp.op = "cleaned"
  /\ lastOp.core = ExampleKey
  /\ lastOp.value # lastOp.core
  /\ LocationBearing(lastOp.row)
  /\ lastOp.row.uBinId = ExampleKey

\* ------------------------------------------------------ Item Store claims
\* a record of another stock code holds the uBinId
HeldByOther(sku, uBinId) ==
  \E r \in items : r.sku # sku /\ r.uBinId = uBinId

\* C13: creating an item at, or relocating an item to, a uBinId held by a
\* record of a different stock code fails with a duplicate-key error and
\* leaves the Item Store unchanged: POST /items of a new stock code is
\* refused (with the duplicate-key error when the body is valid), and the
\* reconciler's insert or relocation raises and writes nothing.
C13_DuplicateKeyRefused ==
  [][/\ \A sku \in ApiSkus, uBinId \in ApiUBinIds, body \in PostBodies :
          (/\ HeldByOther(sku, uBinId)
           /\ findOne(items, sku).sku = NULL
           /\ PostItem(sku, uBinId, body))
            => /\ items' = items
               /\ lastOp'.op \in {"post:duplicate", "post:invalid"}
               /\ body.status = UNDEF => lastOp'.op = "post:duplicate"
     /\ \A row \in RawRows :
          (RowFails(row) /\ ProcessRow(row))
            => (items' = items /\ lastOp'.op = "row:error")]_vars

\* the reconciler tried to create the second stock code at the key of the
\* first, which alone is stored
C13_Witness ==
  /\ lastOp.op = "row:error"
  /\ \E r \in items : items = {r} /\ r.sku = S1 /\ r.uBinId = U1

\* C14 as stated: every mutation of an Item Store record, through any path
\* (save, status update, detail update and the reconciler's relocation and
\* insert), sets the record's lastUpdated to the time of the mutation.
C14_Original ==
  [][\A r \in items' : r \notin items => r.lastUpdated = now]_vars

\* ---------------------------------------------------- resolver fallback
\* the items of a result with their pod, face and bin
Located(result) ==
  {[item |-> x.item, podBarcode |-> x.binInfo.podBarcode,
    faceId |-> x.binInfo.faceId, binId |-> x.binInfo.binId] : x \in result}

\* C15: when the pod lookup of getItemsByPodBarcodeFast finds no pod for the
\* barcode, the call returns the empty set directly: the pod lookup is its
\* only store call, no item query and no fallback aggregation.
C15_NoPodNoFallback ==
  (/\ lastOp.op = "podItems"
   /\ lastOp.fault # "Pod.findOne"
   /\ PodIndex(pods, lastOp.podBarcode) = 0)
    => (lastOp.result = {} /\ lastOp.calls = <<"Pod.findOne">>)

\* a pod query for a barcode without pod, while another pod holds an item
C15_Witness ==
  /\ lastOp.op = "podItems"
  /\ lastOp.fault = "PodItem.find"
  /\ PodIndex(pods, lastOp.podBarcode) = 0
  /\ Len(pods) = 1
  /\ \E r \in items : r.uBinId \in PodUBinIds(pods[1])

\* C16 as stated: when the fast strategy raises and falls back, the fallback
\* query returns the same items with the same pod, face and bin as the fast
\* strategy returns for the same barcode, filters and stores.
C16_Original ==
  (lastOp.op = "podItems" /\ lastOp.fault # "none" /\ Len(lastOp.calls) > 1)
    => Located(lastOp.result)
         = Located(getItemsByPodBarcodeFast(pods, items, lastOp.podBarcode,
                                            lastOp.filters))

\* ------------------------------------------------------------ pod layouts
DIGITS == <<"1", "2", "3", "4", "5", "6", "7", "8", "9">>

toUpperCase(s) == [i \in 1..Len(s) |-> UpperChar(s[i])]

H8 == <<"H", "8">>
H10 == <<"H", "1", "0">>
H11 == <<"H", "1", "1">>
H12 == <<"H", "1", "2">>

\* the table of PodLayout.js, one entry per pod type and face
POD_TYPE_CONFIGS ==
  {[podType |-> H8, podFace |-> <<"A">>, rows |-> 10, columns |-> 4],
   [podType |-> H8, podFace |-> <<"C">>, rows |-> 11, columns |-> 4],
   [podType |-> H10, podFace |-> <<"A">>, rows |-> 12, columns |-> 4],
   [podType |-> H10, podFace |-> <<"C">>, rows |-> 11, columns |-> 4],
   [podType |-> H11, podFace |-> <<"A">>, rows |-> 13, columns |-> 4],
   [podType |-> H11, podFace |-> <<"C">>, rows |-> 12, columns |-> 4],
   [podType |-> H12, podFace |-> <<"A">>, rows |-> 8, columns |-> 3],
   [podType |-> H12, podFace |-> <<"C">>, rows |-> 8, columns |-> 3]}

\* the null returned for an unknown combination
NoLayout == [rows |-> 0, columns |-> 0]

\* mutant: an unknown face of a known pod type gets the layout of face A
getPodLayoutDefaultFace(podType, podFace) ==
  IF podType = <<>> \/ podFace = <<>> THEN NoLayout
  ELSE LET normalizedType == toUpperCase(podType)
           normalizedFace == toUpperCase(podFace)
           typeConfig == {e \in POD_TYPE_CONFIGS : e.podType = normalizedType}
           faceConfig == {e \in typeConfig : e.podFace = normalizedFace}
       IN IF typeConfig = {} THEN NoLayout
          ELSE LET e == IF faceConfig = {}
                          THEN CHOOSE x \in typeConfig : x.podFace = <<"A">>
                          ELSE CHOOSE x \in faceConfig : TRUE
               IN [rows |-> e.rows, columns |-> e.columns]

\* getPodLayout(podType, podFace) on string arguments
getPodLayout(podType, podFace) ==
  IF podType = <<>> \/ podFace = <<>> THEN NoLayout
  ELSE LET normalizedType == toUpperCase(podType)
           normalizedFace == toUpperCase(podFace)
           typeConfig == {e \in POD_TYPE_CONFIGS : e.podType = normalizedType}
           faceConfig == {e \in typeConfig : e.podFace = normalizedFace}
       IN IF typeConfig = {} THEN NoLayout
          ELSE IF faceConfig = {} THEN NoLayout
          ELSE LET e == CHOOSE x \in faceConfig : TRUE
               IN [rows |-> e.rows, columns |-> e.columns]

\* 'a'.. in reverse order, the bottom row last
generateRows(rowCount) == [i \in 1..rowCount |-> <<LOWER[rowCount + 1 - i]>>]

generateColumns(columnCount) == [i \in 1..columnCount |-> <<DIGITS[i]>>]

\* mutant: the row letter is left out of the identifier
generateBinIdNoRow(faceLetter, column, row) ==
  toLowerCase(faceLetter) \o <<"_", "b", "i", "n", "_">> \o column

generateBinId(faceLetter, column, row) ==
  toLowerCase(faceLetter) \o <<"_", "b", "i", "n", "_">> \o column \o row

generateBinDisplayName(column, row) == toUpperCase(row) \o column

\* generatePodGrid(podType, podFace): rows.forEach over columns.forEach
generatePodGrid(podType, podFace) ==
  LET layout == getPodLayout(podType, podFace) IN
  IF layout = NoLayout
    THEN [rows |-> <<>>, columns |-> <<>>, bins |-> <<>>, totalBins |-> 0]
    ELSE LET rows == generateRows(layout.rows)
             columns == generateColumns(layout.columns)
             bins == [k \in 1..(layout.rows * layout.columns) |->
                        LET row == rows[((k - 1) \div layout.columns) + 1]
                            column == columns[((k - 1) % layout.columns) + 1]
                        IN [binId |-> generateBinId(podFace, column, row),
                            displayName |-> generateBinDisplayName(column, row),
                            row |-> row, column |-> column,
                            faceLetter |-> toLowerCase(podFace)]]
         IN [rows |-> rows, columns |-> columns, bins |-> bins,
             totalBins |-> Len(bins)]

\* the table of the provisioning script: faceId, row letters, columns
BIN_LAYOUTS ==
  {[faceId |-> H12 \o <<"-", "A">>, rows |-> SubSeq(UPPER, 1, 8), columns |-> 3],
   [faceId |-> H12 \o <<"-", "C">>, rows |-> SubSeq(UPPER, 1, 8), columns |-> 3],
   [faceId |-> H11 \o <<"-", "A">>, rows |-> SubSeq(UPPER, 1, 13), columns |-> 4],
   [faceId |-> H11 \o <<"-", "C">>, rows |-> SubSeq(UPPER, 1, 12), columns |-> 4],
   [faceId |-> H10 \o <<"-", "A">>, rows |-> SubSeq(UPPER, 1, 12), columns |-> 4],
   [faceId |-> H10 \o <<"-", "C">>, rows |-> SubSeq(UPPER, 1, 11), columns |-> 4],
   [faceId |-> H8 \o <<"-", "A">>, rows |-> SubSeq(UPPER, 1, 10), columns |-> 4],
   [faceId |-> H8 \o <<"-", "C">>, rows |-> SubSeq(UPPER, 1, 11), columns |-> 4]}

\* generateBinsForFaceId(faceId): for row of rows, for col = 1..columns
generateBinsForFaceId(faceId) ==
  LET known == {e \in BIN_LAYOUTS : e.faceId = faceId} IN
  IF known = {} THEN <<>>
  ELSE LET layout == CHOOSE e \in known : TRUE IN
       [k \in 1..(Len(layout.rows) * layout.columns) |->
          [binId |-> <<layout.rows[((k - 1) \div layout.columns) + 1]>>
                       \o <<DIGITS[((k - 1) % layout.columns) + 1]>>,
           binItemCount |-> 0, items |-> <<>>]]

\* the pod types and faces put to the layout functions
LayoutTypes == {H8, H10, H11, H12, <<"h", "8">>, <<"h", "1", "2">>,
                <<"H", "9">>, <<"H">>, <<>>}
LayoutFaces == {<<"A">>, <<"B">>, <<"C">>, <<"D">>, <<"a">>, <<"c">>,
                <<"A", "C">>, <<>>}

InitLayout ==
  /\ items = {}
  /\ now = 0
  /\ recon = reconIdle
  /\ pods = <<>>
  /\ cache = {}
  /\ tasks = NoTasks
  /\ \E podType \in LayoutTypes, podFace \in LayoutFaces :
       lastOp = [op |-> "layoutInput", podType |-> podType, podFace |-> podFace]

\* the rendering side asks for the layout and the grid
RenderGrid ==
  /\ lastOp.op = "layoutInput"
  /\ lastOp' = [op |-> "grid", podType |-> lastOp.podType,
                podFace |-> lastOp.podFace,
                layout |-> getPodLayout(lastOp.podType, lastOp.podFace),
                grid |-> generatePodGrid(lastOp.podType, lastOp.podFace)]
  /\ UNCHANGED <<items, now, recon, pods, cache, tasks>>

\* the provisioning script generates the bins of the face podType-podFace
ProvisionBins ==
  /\ lastOp.op = "layoutInput"
  /\ lastOp' = [op |-> "provisioned", podType |-> lastOp.podType,
                podFace |-> lastOp.podFace,
                bins |-> generateBinsForFaceId(lastOp.podType \o <<"-">>
                                               \o lastOp.podFace)]
  /\ UNCHANGED <<items, now, recon, pods, cache, tasks>>

NextLayout == RenderGrid \/ ProvisionBins

SpecLayout == InitLayout /\ [][NextLayout]_vars

\* ------------------------------------------------------- layout claims
\* the entries of the layout table for a pod type and face, whatever the
\* letter case they are written in
TableEntries(podType, podFace) ==
  {e \in POD_TYPE_CONFIGS :
     /\ toLowerCase(e.podType) = toLowerCase(podType)
     /\ toLowerCase(e.podFace) = toLowerCase(podFace)}

SeqRange(q) == {q[i] : i \in 1..Len(q)}

\* C17: for every (pod type, face) that is not in the layout table the lookup
\* returns null and the grid has no rows, columns or bins, never a partial
\* layout; for every combination in the table the lookup returns its
\* dimensions and the grid has all rows * columns bins.
C17_UnknownLayout ==
  lastOp.op = "grid" =>
    IF TableEntries(lastOp.podType, lastOp.podFace) = {}
      THEN /\ lastOp.layout = NoLayout
           /\ lastOp.grid.bins = <<>>
           /\ lastOp.grid.rows = <<>>
           /\ lastOp.grid.columns = <<>>
           /\ lastOp.grid.totalBins = 0
      ELSE \A e \in TableEntries(lastOp.podType, lastOp.podFace) :
             /\ lastOp.layout = [rows |-> e.rows, columns |-> e.columns]
             /\ Len(lastOp.grid.bins) = e.rows * e.columns
             /\ lastOp.grid.totalBins = e.rows * e.columns

\* a known pod type was asked for a face it does not have
C17_Witness ==
  /\ lastOp.op = "grid"
  /\ lastOp.podType = H8
  /\ lastOp.podFace = <<"B">>
  /\ lastOp.grid.totalBins = 0

\* C18: for every (pod type, face) of the table with r rows and c columns the
\* grid has exactly r * c bins, one for each pair of a row letter among the
\* first r lowercase letters and a column 1..c, with pairwise distinct
\* identifiers; each identifier is the lowercased face letter, "_bin_", the
\* column and the row letter, each display name the uppercased row letter
\* and the column.
C18_GridBins ==
  lastOp.op = "grid" =>
    \A e \in TableEntries(lastOp.podType, lastOp.podFace) :
      LET bins == lastOp.grid.bins
          rowLetters == {<<LOWER[i]>> : i \in 1..e.rows}
          columnDigits == {<<DIGITS[j]>> : j \in 1..e.columns}
      IN /\ Len(bins) = e.rows * e.columns
         /\ {<<b.row, b.column>> : b \in SeqRange(bins)}
              = rowLetters \X columnDigits
         /\ Cardinality({b.binId : b \in SeqRange(bins)}) = e.rows * e.columns
         /\ \A b \in SeqRange(bins) :
              /\ b.binId = toLowerCase(lastOp.podFace)
                             \o <<"_", "b", "i", "n", "_">> \o b.column \o b.row
              /\ b.displayName = toUpperCase(b.row) \o b.column

\* the 52 bins of the largest face, asked for in lower case
C18_Witness ==
  /\ lastOp.op = "grid"
  /\ lastOp.podType = H11
  /\ lastOp.podFace = <<"a">>
  /\ Len(lastOp.grid.bins) = 52
  /\ \E b \in SeqRange(lastOp.grid.bins) :
       b.binId = <<"a", "_", "b", "i", "n", "_", "4", "m">>
         /\ b.displayName = <<"M", "4">>

\* C19 as stated: for every (pod type, face) that provisioning supports, the
\* bin identifiers provisioning generates for the Pod Structure Store are the
\* bin identifiers the layout generator produces for that pod type and face.
C19_Original ==
  (lastOp.op = "provisioned" /\ lastOp.bins # <<>>)
    => {b.binId : b \in SeqRange(lastOp.bins)}
         = {b.binId :
              b \in SeqRange(generatePodGrid(lastOp.podType, lastOp.podFace).bins)}

\* --------------------------------------------------------- pod updates
\* app.patch("/pods/:podBarcode/face/:faceId"); body.faceItemTotal is NoQty
\* when absent, body.bins is read only when body.hasBins
PatchFace(podBarcode, faceId, body) ==
  /\ LET i == PodIndex(pods, podBarcode) IN
     IF i = 0
       THEN /\ lastOp' = [op |-> "face:noPod"]
            /\ UNCHANGED pods
     ELSE IF ~\E f \in 1..Len(pods[i].podFace) : pods[i].podFace[f].podFace = faceId
       THEN /\ lastOp' = [op |-> "face:notFound"]
            /\ UNCHANGED pods
     ELSE LET faceIndex == First({f \in 1..Len(pods[i].podFace) :
                                    pods[i].podFace[f].podFace = faceId})
              total == IF body.faceItemTotal # NoQty
                         THEN body.faceItemTotal
                         ELSE pods[i].podFace[faceIndex].faceItemTotal
              bins == IF body.hasBins THEN body.bins
                      ELSE pods[i].podFace[faceIndex].bins
              pod == [pods[i] EXCEPT !.podFace[faceIndex].faceItemTotal = total,
                                     !.podFace[faceIndex].bins = bins]
          IN IF PodValid(preSave(pod))
               THEN /\ pods' = [pods EXCEPT ![i] = preSave(pod)]
                    /\ lastOp' = [op |-> "face:patched",
                                  supplied |-> body.faceItemTotal]
               ELSE /\ lastOp' = [op |-> "face:invalid"]
                    /\ UNCHANGED pods
  /\ UNCHANGED <<items, now, recon, cache, tasks>>

\* the bins of a provisioning row: the manual entries binId:itemCount when
\* given, the generated bins of the faceId otherwise; no bin has a uBinId
ProvisionedBins(faceId, manual) ==
  IF manual # <<>>
    THEN [k \in 1..Len(manual) |->
            [binId |-> manual[k].binId, uBinId |-> NULL,
             binItemCount |-> manual[k].itemCount, items |-> <<>>]]
    ELSE [k \in 1..Len(generateBinsForFaceId(faceId)) |->
            [binId |-> generateBinsForFaceId(faceId)[k].binId, uBinId |-> NULL,
             binItemCount |-> generateBinsForFaceId(faceId)[k].binItemCount,
             items |-> generateBinsForFaceId(faceId)[k].items]]

\* addNewPodsFromCSV for one row with face data: written through the raw
\* collection, the face carries faceId and no face letter
ProvisionPod(podBarcode, faceId, manual) ==
  /\ IF ~\E e \in BIN_LAYOUTS : e.faceId = faceId
       THEN /\ lastOp' = [op |-> "provision:unknownFace"]
            /\ UNCHANGED pods
     ELSE LET bins == ProvisionedBins(faceId, manual)
              face == [podFace |-> UNDEF, faceId |-> faceId,
                       faceItemTotal |->
                         SumSeq([k \in 1..Len(bins) |-> bins[k].binItemCount]),
                       bins |-> bins]
              i == PodIndex(pods, podBarcode)
          IN IF i = 0
               THEN /\ pods' = Append(pods, [podBarcode |-> podBarcode,
                                             podFace |-> <<face>>])
                    /\ lastOp' = [op |-> "provision:created"]
             ELSE IF \E f \in 1..Len(pods[i].podFace) :
                       pods[i].podFace[f].faceId = faceId
               THEN /\ lastOp' = [op |-> "provision:faceExists"]
                    /\ UNCHANGED pods
             ELSE /\ pods' = [pods EXCEPT ![i].podFace = Append(@, face)]
                  /\ lastOp' = [op |-> "provision:faceAdded"]
  /\ UNCHANGED <<items, now, recon, cache, tasks>>

\* the embedded entries of sku in the bins with the uBinId get the status
StatusInFaces(podFace, sku, uBinId, newStatus) ==
  [f \in 1..Len(podFace) |->
     [podFace[f] EXCEPT !.bins =
        [k \in 1..Len(@) |->
           IF @[k].uBinId = uBinId
             THEN [@[k] EXCEPT !.items =
                     [n \in 1..Len(@) |->
                        IF @[n].itemSku = sku
                          THEN [@[n] EXCEPT !.itemStatus = newStatus]
                          ELSE @[n]]]
             ELSE @[k]]]]

\* pod.updateItemStatus(sku, uBinId, newStatus)
UpdateItemStatus(podBarcode, sku, uBinId, newStatus) ==
  /\ PodIndex(pods, podBarcode) # 0
  /\ LET i == PodIndex(pods, podBarcode)
         podItem == {r \in items : r.sku = sku /\ r.uBinId = uBinId}
         saved == {[r EXCEPT !.status = newStatus, !.lastUpdated = now,
                             !.updatedAt = now] : r \in podItem}
         updated == \E f \in 1..Len(pods[i].podFace) :
                      \E k \in 1..Len(pods[i].podFace[f].bins) :
                        /\ pods[i].podFace[f].bins[k].uBinId = uBinId
                        /\ \E n \in 1..Len(pods[i].podFace[f].bins[k].items) :
                             pods[i].podFace[f].bins[k].items[n].itemSku = sku
         pod == preSave([pods[i] EXCEPT !.podFace =
                           StatusInFaces(@, sku, uBinId, newStatus)])
     IN
     IF newStatus \notin {"missing", "available", "hunting"}
       THEN /\ lastOp' = [op |-> "podStatus:invalid"]
            /\ UNCHANGED <<items, pods>>
     ELSE /\ items' = (items \ podItem) \cup saved
          /\ IF ~updated
               THEN /\ lastOp' = [op |-> "podStatus:notEmbedded"]
                    /\ UNCHANGED pods
             ELSE IF PodValid(pod)
               THEN /\ pods' = [pods EXCEPT ![i] = pod]
                    /\ lastOp' = [op |-> "podStatus:updated", sku |-> sku,
                                  uBinId |-> uBinId, newStatus |-> newStatus]
               \* this.save() rejects: "Failed to update item status"
               ELSE /\ lastOp' = [op |-> "podStatus:error"]
                    /\ UNCHANGED pods
  /\ UNCHANGED <<now, recon, cache, tasks>>

\* what callers send to the pod routes and the provisioning file holds
PodFaceInputs == {<<Face("A", <<Bin("A1", U1, c)>>)>> : c \in 0..MaxCount}

PatchFaceBodies ==
  {[faceItemTotal |-> NoQty, hasBins |-> TRUE, bins |-> <<Bin("A1", U2, c)>>] :
     c \in 0..MaxCount}
    \cup {[faceItemTotal |-> 2, hasBins |-> FALSE, bins |-> <<>>]}

ManualBins == {<<>>, <<[binId |-> <<"A", "1">>, itemCount |-> 1]>>}

NextPods ==
  \/ \E podFace \in PodFaceInputs : CreatePod("HB1", podFace)
  \/ \E faceId \in {"A", "C"}, body \in PatchFaceBodies :
       PatchFace("HB1", faceId, body)
  \/ \E faceId \in {H12 \o <<"-", "A">>, H12 \o <<"-", "B">>},
        manual \in ManualBins : ProvisionPod("HB1", faceId, manual)
  \/ \E sku \in ApiSkus, uBinId \in {U1, U2} :
       PostItem(sku, uBinId, [status |-> UNDEF, quantity |-> NoQty,
                              asin |-> UNDEF, user |-> UNDEF])
  \/ SyncPod("HB1")
  \/ \E sku \in ApiSkus, newStatus \in SyncStatuses :
       UpdateItemStatus("HB1", sku, U1, newStatus)
  \/ DeleteItem(S1)

SpecPods == Init /\ [][NextPods]_vars

\* ------------------------------------------------------ pod store claims
\* C20 as stated: in every reachable state of the Pod Structure Store, after
\* any sequence of pod creation, face update with caller-supplied bins, pod
\* provisioning, syncPod and updateItemStatus, every bin's binItemCount is
\* the length of its embedded item list.
C20_Original ==
  \A i \in 1..Len(pods) :
    \A bin \in BinsOf(pods[i]) : bin.binItemCount = Len(bin.items)

\* C21: after a pod is written through the model (pod creation, face update,
\* syncPod, updateItemStatus) every face's stored faceItemTotal is the sum of
\* its bins' binItemCount, whatever faceItemTotal the request carried.
C21_FaceTotals ==
  lastOp.op \in {"pod:created", "face:patched", "syncPod:ok",
                 "podStatus:updated"}
    => \A i \in 1..Len(pods) :
         \A f \in 1..Len(pods[i].podFace) :
           pods[i].podFace[f].faceItemTotal = FaceSum(pods[i].podFace[f])

\* a face update whose body carried a faceItemTotal other than the sum
C21_Witness ==
  /\ lastOp.op = "face:patched"
  /\ lastOp.supplied # NoQty
  /\ \E i \in 1..Len(pods) :
       \E f \in 1..Len(pods[i].podFace) :
         /\ pods[i].podFace[f].podFace = "A"
         /\ lastOp.supplied # pods[i].podFace[f].faceItemTotal

\* the stock records of a pod whose bin passes the face and the bin filter
ItemsOfBins(podBarcode, filters) ==
  LET rows == PodRows(pods, podBarcode, 1) IN
  {r \in items :
     \E k \in 1..Len(rows) :
       /\ rows[k].uBinId # NULL
       /\ rows[k].uBinId = r.uBinId
       /\ filters.faceId # UNDEF => rows[k].faceId = filters.faceId
       /\ filters.binId # UNDEF => rows[k].binId = filters.binId}

\* C22 as stated: the fast strategy called with a face filter and a bin filter
\* returns exactly the items of the pod whose bin has that face letter and
\* that bin identifier; with one of the two filters, exactly the items whose
\* bin satisfies that filter.
C22_Original ==
  (/\ lastOp.op = "resolve"
   /\ lastOp.filters.status = UNDEF
   /\ (lastOp.filters.faceId # UNDEF \/ lastOp.filters.binId # UNDEF))
    => {x.item : x \in lastOp.fast}
         = ItemsOfBins(lastOp.podBarcode, lastOp.filters)

\* C23 as stated: syncPod writes the pod exactly once when the items found
\* across its bins are at least one, and writes nothing when they are none.
C23_Original ==
  lastOp.op \in {"syncPod:ok", "syncPod:error"}
    => (lastOp.saved <=> lastOp.found >= 1)

\* C23, amended: syncPod calls save() exactly once when the items found
\* across the pod's bins are at least one and never when they are none; the
\* pod is written by that call unless the store rejects the document, in
\* which case syncPod fails and the stored pod stays as it was.
C23_SaveIffFound ==
  [][lastOp'.op \in {"syncPod:ok", "syncPod:error"}
       => /\ lastOp'.saveCalls = (IF lastOp'.found >= 1 THEN 1 ELSE 0)
          /\ lastOp'.saved <=> (lastOp'.found >= 1 /\ lastOp'.op = "syncPod:ok")
          /\ ~lastOp'.saved => pods' = pods]_vars

\* a synchronization that found items and wrote the pod
C23_Witness ==
  /\ lastOp.op = "syncPod:ok"
  /\ lastOp.found >= 1
  /\ lastOp.saved
  /\ \E i \in 1..Len(pods) :
       /\ pods[i].podBarcode = lastOp.podBarcode
       /\ \E bin \in BinsOf(pods[i]) : bin.items # <<>>

\* ------------------------------------------------------- the join strategy
\* app.get("/bin-items") without pod, face or bin filter: the result of
\* PodItem.getItemsWithBinMapping(query)
BinItems(query) ==
  /\ lastOp' = [op |-> "binItems", query |-> query,
                result |-> getItemsWithBinMapping(pods, items, query)]
  /\ UNCHANGED <<items, now, recon, pods, cache, tasks>>

\* the queries of the route: an optional status, one uBinId or any
JoinQueries ==
  [status : {UNDEF, "available"}, uBinId : {{U1}, {U2}, {U1, U2}}]

NextJoin ==
  \/ \E b \in Barcodes : \E podFace \in ResolveFaces : CreatePod(b, podFace)
  \/ \E sku \in ApiSkus, uBinId \in {U1, U2} :
       PostItem(sku, uBinId, [status |-> UNDEF, quantity |-> NoQty,
                              asin |-> UNDEF, user |-> UNDEF])
  \/ PatchItemStatus(S1, "missing")
  \/ \E query \in JoinQueries : BinItems(query)

SpecJoin == Init /\ [][NextJoin]_vars

\* the bins of every pod, in pod, face, bin traversal order
RECURSIVE AllBinRows(_, _)
AllBinRows(podStore, i) ==
  IF i > Len(podStore) THEN <<>>
  ELSE Unwind(podStore[i], 1) \o AllBinRows(podStore, i + 1)

FirstBinOf(uBinId) ==
  LET rows == AllBinRows(pods, 1)
      hits == {k \in 1..Len(rows) : rows[k].uBinId = uBinId}
  IN IF hits = {} THEN NoBinInfo ELSE rows[First(hits)]

\* C24 as stated: the join strategy returns every Item Store record matching
\* the filter exactly once, annotated with the first bin in pod, face, bin
\* traversal order that carries the record's uBinId, and without a location
\* annotation when no bin carries it.
C24_Original ==
  lastOp.op = "binItems" =>
    LET matching == {r \in items :
                       /\ r.uBinId \in lastOp.query.uBinId
                       /\ lastOp.query.status # UNDEF =>
                            r.status = lastOp.query.status}
    IN /\ {x.item : x \in lastOp.result} = matching
       /\ Cardinality(lastOp.result) = Cardinality(matching)
       /\ \A x \in lastOp.result : x.binInfo = FirstBinOf(x.item.uBinId)

\* ------------------------------------------------- concurrent creation
\* the handlers of two writers step by step: each await is a step, and the
\* other writer may run between the existence check and the write
TaskDone(t, kind, sku, outcome) ==
  [tasks EXCEPT ![t] = [pc |-> "done", kind |-> kind, sku |-> sku,
                        outcome |-> outcome]]

\* app.post("/items") up to the answer of PodItem.findOne({sku})
PostCheck(t, sku, uBinId) ==
  /\ tasks[t].pc = "idle"
  /\ IF findOne(items, sku).sku # NULL
       THEN tasks' = TaskDone(t, "post", sku, "post:exists")
       ELSE tasks' = [tasks EXCEPT ![t] = [pc |-> "post:save", kind |-> "post",
                                          sku |-> sku, uBinId |-> uBinId]]
  /\ lastOp' = [op |-> "post:checked", task |-> t]
  /\ UNCHANGED <<items, now, recon, pods, cache>>

\* app.post("/items"): newItem.save() and the response
PostSave(t) ==
  /\ tasks[t].pc = "post:save"
  /\ LET newItem == [sku |-> tasks[t].sku, uBinId |-> tasks[t].uBinId,
                     status |-> "available", quantity |-> 1,
                     asin |-> UNDEF, user |-> UNDEF,
                     lastUpdated |-> now, updatedAt |-> now]
         res == insertOne(items, newItem)
     IN /\ items' = res.store
        /\ tasks' = TaskDone(t, "post", tasks[t].sku,
                             IF res.ok THEN "post:created" ELSE "post:duplicate")
  /\ lastOp' = [op |-> "post:saved", task |-> t]
  /\ UNCHANGED <<now, recon, pods, cache>>

\* one reconciler iteration up to the answer of findOne({sku: csvRow.sku}),
\* for a row with a stock code and a valid location key
RowCheck(t, csvRow) ==
  /\ tasks[t].pc = "idle"
  /\ csvRow.sku # NULL
  /\ LocationBearing(csvRow)
  /\ LET existingPodItem == findOne(items, csvRow.sku) IN
     IF existingPodItem.sku = NULL
       THEN tasks' = [tasks EXCEPT ![t] = [pc |-> "row:insert", kind |-> "row",
                                          sku |-> csvRow.sku, csvRow |-> csvRow]]
     ELSE IF RelocateNeeded(csvRow, existingPodItem)
       THEN tasks' = [tasks EXCEPT ![t] = [pc |-> "row:update", kind |-> "row",
                                          sku |-> csvRow.sku, csvRow |-> csvRow]]
     ELSE tasks' = TaskDone(t, "row", csvRow.sku, "row:same")
  /\ recon' = [recon EXCEPT !.totalProcessed = @ + 1]
  /\ lastOp' = [op |-> "row:checked", task |-> t]
  /\ UNCHANGED <<items, now, pods, cache>>

\* the write of the iteration: insertOne or updateOne, an error of either
\* caught by the inner catch and logged
RowWrite(t) ==
  /\ tasks[t].pc \in {"row:insert", "row:update"}
  /\ LET csvRow == tasks[t].csvRow
         res == IF tasks[t].pc = "row:insert"
                  THEN insertOne(items, newPodItem(csvRow, now))
                  ELSE updateOneUBinId(items, csvRow.sku, csvRow.uBinId, now)
     IN /\ items' = res.store
        /\ tasks' = TaskDone(t, "row", csvRow.sku,
                     IF ~res.ok THEN "row:error"
                     ELSE IF tasks[t].pc = "row:insert" THEN "row:inserted"
                     ELSE "row:updated")
        /\ recon' = IF ~res.ok THEN recon
                    ELSE IF tasks[t].pc = "row:insert"
                      THEN [recon EXCEPT !.totalPodItemsInserted = @ + 1]
                    ELSE [recon EXCEPT !.totalPodItemsUpdated = @ + 1]
  /\ lastOp' = [op |-> "row:written", task |-> t]
  /\ UNCHANGED <<now, pods, cache>>

\* the rows of the file that carry a stock code and a valid location key
RaceRows ==
  {Cleaned(row) : row \in {r \in RawRows : r.sku # <<>> /\ r.uBinId \in {U1, <<" ">> \o U2 \o <<" ">>}}}

NextRace ==
  \/ \E t \in TaskIds, sku \in ApiSkus, uBinId \in {U1, U2} :
       PostCheck(t, sku, uBinId)
  \/ \E t \in TaskIds : PostSave(t)
  \/ \E t \in TaskIds, csvRow \in RaceRows : RowCheck(t, csvRow)
  \/ \E t \in TaskIds : RowWrite(t)

SpecRace == Init /\ [][NextRace]_vars

\* both writers have finished, and both were creating the same stock code
RaceOver ==
  /\ tasks[1].pc = "done"
  /\ tasks[2].pc = "done"
  /\ tasks[1].sku = tasks[2].sku

Winners == {t \in TaskIds : tasks[t].outcome \in {"post:created", "row:inserted"}}

transformItem(x) ==
  [sku |-> x.item.sku, status |-> x.item.status, quantity |-> x.item.quantity,
   asin |-> x.item.asin, uBinId |-> x.item.uBinId,
   binId |-> x.binInfo.binId, faceId |-> x.binInfo.faceId,
   podBarcode |-> x.binInfo.podBarcode, user |-> x.item.user,
   lastUpdated |-> x.item.lastUpdated, updatedAt |-> x.item.updatedAt]

\* app.get("/pods/:podBarcode/items"): answered from the cache when the key
\* has a live entry, computed by the fast strategy and cached otherwise
GetPodItems(podBarcode, filters) ==
  /\ LET cacheKey == [podBarcode |-> podBarcode, filters |-> filters]
         cachedResult == CacheHit(cache, cacheKey)
         transformedItems ==
           {transformItem(x) :
              x \in getItemsByPodBarcodeFast(pods, items, podBarcode, filters)}
     IN IF cachedResult # {}
          THEN /\ lastOp' = [op |-> "podItems:hit",
                             data |-> (CHOOSE e \in cachedResult : TRUE).data]
               /\ UNCHANGED cache
          ELSE /\ cache' = setCache(getCacheEvict(cache, cacheKey), cacheKey,
                                    transformedItems)
               /\ lastOp' = [op |-> "podItems:miss", data |-> transformedItems]
  /\ UNCHANGED <<items, now, recon, pods, tasks>>

CacheFilters ==
  {[status |-> st, faceId |-> UNDEF, binId |-> UNDEF] :
     st \in {UNDEF, "available"}}

NextCache ==
  \/ \E podFace \in SmallFaces : CreatePod("HB1", podFace)
  \/ PostItem(S1, U1, [status |-> UNDEF, quantity |-> NoQty,
                       asin |-> UNDEF, user |-> UNDEF])
  \/ PatchItemStatus(S1, "missing")
  \/ \E body \in PatchBodies : PatchItem(S1, body)
  \/ BulkStatus({S1}, "hunting")
  \/ DeleteItem(S1)
  \/ \E filters \in CacheFilters : GetPodItems("HB1", filters)
  \/ Tick

SpecCache == Init /\ [][NextCache]_vars

\* a step that changed the Item Store through one of the item routes
ItemModified ==
  /\ lastOp'.op \in {"post:created", "status:updated", "patch:updated", "bulk",
                     "delete:done"}
  /\ items' # items

\* C27 as stated: after a successful modification of an item through the API
\* (status update, detail update, bulk status update, creation, deletion) a
\* later GET /pods/:podBarcode/items never answers from a cache entry computed
\* before the modification: no entry that a later request would still be
\* served survives the modification.
C27_Original ==
  [][ItemModified => \A e \in cache' \cap cache : now > e.timestamp]_vars

\* ------------------------------------------------------ whole reconcile runs
\* the for loop over csvData from row i on: the store, the counters and the
\* number of rows whose write the store refused
RECURSIVE RunBatch(_, _, _, _, _)
RunBatch(store, counters, batch, i, t) ==
  IF i > Len(batch)
    THEN [store |-> store, recon |-> counters, errors |-> 0]
  ELSE LET out == ProcessCsvRow(store,
                    [counters EXCEPT !.totalProcessed = @ + 1],
                    Cleaned(batch[i]), t)
           rest == RunBatch(out.store, out.recon, batch, i + 1, t)
       IN [rest EXCEPT !.errors = @ + (IF out.branch = "row:error" THEN 1 ELSE 0)]

\* updateItemsFromCSV run from start to exit on the rows of one file
Reconcile(batch) ==
  /\ ~recon.running
  /\ LET run == RunBatch(items, [reconIdle EXCEPT !.length = Len(batch)],
                         batch, 1, now)
     IN /\ items' = run.store
        /\ lastOp' = [op |-> "reconcile:run", batch |-> batch,
                      errors |-> run.errors,
                      summary |-> run.recon,
                      \* the run directly follows a run on the same batch
                      rerun |-> (lastOp.op = "reconcile:run"
                                 /\ lastOp.batch = batch),
                      firstErrors |-> IF lastOp.op = "reconcile:run"
                                        THEN lastOp.errors ELSE 0]
  /\ UNCHANGED <<now, recon, pods, cache, tasks>>

\* the rows of the batches: two stock codes on two location keys
RerunRows ==
  {row \in RawRows :
     /\ row.sku # <<>>
     /\ row.uBinId \in {U1, <<" ">> \o U2 \o <<" ">>}}

Batches == UNION {[1..n -> RerunRows] : n \in 1..MaxRows}

NextRerun ==
  \/ \E sku \in ApiSkus, uBinId \in {U1, U2} :
       PostItem(sku, uBinId, [status |-> UNDEF, quantity |-> NoQty,
                              asin |-> UNDEF, user |-> UNDEF])
  \/ \E batch \in Batches : Reconcile(batch)

SpecRerun == Init /\ [][NextRerun]_vars

\* a store without its timestamps
Untimed(store) ==
  {[sku |-> r.sku, uBinId |-> r.uBinId, status |-> r.status,
    quantity |-> r.quantity, asin |-> r.asin, user |-> r.user] : r \in store}

UnmappedBinsKept ==
  \A i \in 1..Len(pods) :
    \A f \in 1..Len(pods[i].podFace) :
      \A k \in 1..Len(pods[i].podFace[f].bins) :
        pods[i].podFace[f].bins[k].uBinId = NULL
          => /\ pods'[i].podFace[f].bins[k].items
                  = pods[i].podFace[f].bins[k].items
             /\ pods'[i].podFace[f].bins[k].binItemCount
                  = pods[i].podFace[f].bins[k].binItemCount

\* C29: syncPod(b) and syncAll never write to the Item Store; syncPod(b)
\* never changes a pod other than b; and every bin without a uBinId keeps
\* its embedded item list and its binItemCount.
C29_SyncFrame ==
  [][/\ lastOp'.op \in {"syncPod:ok", "syncPod:error", "syncPod:notFound",
                        "syncAll"}
          => /\ items' = items
             /\ Len(pods') = Len(pods)
             /\ UnmappedBinsKept
     /\ lastOp'.op \in {"syncPod:ok", "syncPod:error", "syncPod:notFound"}
          => \A i \in 1..Len(pods) :
               pods[i].podBarcode # lastOp'.podBarcode => pods'[i] = pods[i]]_vars

\* a syncPod that wrote one of two pods, the written pod holding a bin
\* without a uBinId and a count of its own
C29_Witness ==
  /\ lastOp.op = "syncPod:ok"
  /\ lastOp.saved
  /\ Len(pods) = 2
  /\ items # {}
  /\ \E bin \in BinsOf(SyncedPod) : bin.uBinId = NULL /\ bin.binItemCount > 0

\* C30 as stated: whenever updateItemStatus(sku, uBinId, newStatus) changes an
\* embedded item's status and returns true, the Item Store record of that
\* stock code carries the same status afterwards: the embedded copy is never
\* set to a status the Item Store does not hold for the item.
C30_Original ==
  lastOp.op = "podStatus:updated"
    => \E r \in items : r.sku = lastOp.sku /\ r.status = lastOp.newStatus

====
